---- MODULE Spec2Model ----
(***************************************************************************)
(* Model of homework.py: a bot that polls the homework-status API and      *)
(* forwards status changes and (deduplicated) error reports to a chat.     *)
(*                                                                         *)
(* Python values are tagged records ([t |-> type, v |-> value]); a text    *)
(* is a sequence of string tokens, and an f-string is the concatenation    *)
(* of its literal parts and its formatted fields.  The Russian literals    *)
(* of the source are transliterated.                                       *)
(*                                                                         *)
(* main is a program counter (pc) over its lines; calls of                 *)
(* send_and_logging_error and send_message are frames on `stack`.          *)
(* `trace` records what the process did to the outside world: log          *)
(* records, chat delivery calls, API requests and sleeps.                  *)
(*                                                                         *)
(* The environment decides the answer of each API request and whether each *)
(* chat delivery call succeeds.  Tokens that are set are taken to be       *)
(* well-formed, so that Bot(token=...) itself does not fail.               *)
(***************************************************************************)
EXTENDS Naturals, Sequences, FiniteSets, TLC

VARIABLES
    PRACTICUM_TOKEN,   \* os.getenv('PRACTICUM_TOKEN')
    TELEGRAM_TOKEN,    \* os.getenv('TELEGRAM_TOKEN')
    TELEGRAM_CHAT_ID,  \* os.getenv('TELEGRAM_CHAT_ID')
    LIST_OF_ERRORS,    \* error texts already delivered
    pc,                \* position of main
    stack,             \* frames of send_and_logging_error / send_message
    ret,               \* value returned by the frame that returned last
    current_timestamp, \* locals of main
    response,
    homeworks_list,
    homework,
    message,
    error,
    now,               \* int(time.time())
    cycle,             \* number of API requests made so far
    failures,          \* number of chat delivery calls that failed so far
    trace              \* log records, delivery calls, requests, sleeps

vars == <<PRACTICUM_TOKEN, TELEGRAM_TOKEN, TELEGRAM_CHAT_ID, LIST_OF_ERRORS,
          pc, stack, ret, current_timestamp, response, homeworks_list,
          homework, message, error, now, cycle, failures, trace>>

tokenVars == <<PRACTICUM_TOKEN, TELEGRAM_TOKEN, TELEGRAM_CHAT_ID>>
localVars == <<current_timestamp, response, homeworks_list, homework,
               message, error>>

-----------------------------------------------------------------------------
(* Bounds *)

MaxCycles == 2        \* API requests in one run
RecursionLimit == 3   \* frames the interpreter allows on `stack`
MaxFailures == 1      \* chat delivery calls that fail in one run
StartTime == 1000     \* the clock when main starts

RETRY_TIME == 600

-----------------------------------------------------------------------------
(* Python values *)

NoneV == [t |-> "None"]
Str(s) == [t |-> "str", v |-> s]
Int(i) == [t |-> "int", v |-> i]
List(l) == [t |-> "list", v |-> l]
Dict(d) == [t |-> "dict", v |-> d]
MessageObject == [t |-> "Message"]

\* dict.get(key): the value, or None for an absent key
Get(d, key) == IF key \in DOMAIN d.v THEN d.v[key] ELSE NoneV

\* a value interpolated in an f-string
Format(x) ==
    IF x.t = "None" THEN "None"
    ELSE IF x.t = "int" THEN ToString(x.v)
    ELSE IF x.t = "str" THEN x.v
    ELSE "<object>"

\* truth value of `x` in `x or ...`
Truthy(x) ==
    IF x.t = "None" THEN FALSE
    ELSE IF x.t = "int" THEN x.v # 0
    ELSE IF x.t = "str" THEN x.v # ""
    ELSE IF x.t = "list" THEN Len(x.v) > 0
    ELSE TRUE

\* the dictionary with the texts of approved and rejected exchanged
HOMEWORK_STATUSES_swapped ==
    [approved  |-> "Rabota proverena: u revyuera est zamechaniya.",
     reviewing |-> "Rabota vzyata na proverku revyuerom.",
     rejected  |-> "Rabota proverena: revyueru vsyo ponravilos. Ura!"]

HOMEWORK_STATUSES ==
    [approved  |-> "Rabota proverena: revyueru vsyo ponravilos. Ura!",
     reviewing |-> "Rabota vzyata na proverku revyuerom.",
     rejected  |-> "Rabota proverena: u revyuera est zamechaniya."]

\* HOMEWORK_STATUSES.get(status)
Verdict(status) ==
    IF status.t = "str" /\ status.v \in DOMAIN HOMEWORK_STATUSES
    THEN Str(HOMEWORK_STATUSES[status.v])
    ELSE NoneV

\* the sentence parse_status returns
StatusMessage(homework_name, verdict) ==
    <<"Izmenilsya status proverki raboty \"", Format(homework_name), "\". ",
      Format(verdict)>>

-----------------------------------------------------------------------------
(* Exceptions *)

Exception(type, text) == [type |-> type, text |-> text]

\* str(error)
ExcStr(e) ==
    IF e.type = "KeyError" THEN <<"'">> \o e.text \o <<"'">> ELSE e.text

TelegramError == Exception("TelegramError", <<"<telegram error>">>)
RecursionError ==
    Exception("RecursionError", <<"maximum recursion depth exceeded">>)

\* the exception classes requests.get raises here, with their base classes
RequestErrors ==
    {"HTTPError", "ConnectionError", "ConnectTimeout", "ReadTimeout",
     "TooManyRedirects"}

Bases(type) ==
    CASE type = "HTTPError"        -> {"HTTPError", "RequestException"}
      [] type = "ConnectionError"  -> {"ConnectionError", "RequestException"}
      [] type = "ConnectTimeout"   ->
             {"ConnectTimeout", "ConnectionError", "Timeout", "RequestException"}
      [] type = "ReadTimeout"      -> {"ReadTimeout", "Timeout", "RequestException"}
      [] type = "TooManyRedirects" -> {"TooManyRedirects", "RequestException"}

\* the text of the first except clause of get_api_answer that matches
RequestErrorMessage(type) ==
    IF "HTTPError" \in Bases(type) THEN <<"Http Error: ", "<" \o type \o ">">>
    ELSE IF "ConnectionError" \in Bases(type)
        THEN <<"Error Connecting: ", "<" \o type \o ">">>
    ELSE IF "Timeout" \in Bases(type) THEN <<"Timeout Error: ", "<" \o type \o ">">>
    ELSE <<"Error: ", "<" \o type \o ">">>

-----------------------------------------------------------------------------
(* Inputs: what the API and the chat service can answer *)

\* homework records: the name present or absent, each known status, an
\* unknown one and an absent one, current_date absent, 0 or a timestamp
HomeworkRecords ==
    { Dict([homework_name |-> Str("hw1"), status |-> Str(s), current_date |-> Int(123)]) :
          s \in {"approved", "reviewing", "rejected", "unknown"} }
    \cup { Dict([homework_name |-> Str("hw1"), status |-> Str("approved")]),
           Dict([homework_name |-> Str("hw1"), status |-> Str("approved"),
                 current_date |-> Int(0)]),
           Dict([homework_name |-> Str("hw1"), current_date |-> Int(123)]),
           Dict([status |-> Str("approved"), current_date |-> Int(123)]),
           Dict([status |-> Str("approved")]) }

\* decoded JSON bodies: not a mapping, a mapping without homeworks, without
\* current_date, with homeworks that is no list, and well-formed ones
Responses ==
    { List(<<>>),
      Dict([current_date |-> Int(456)]),
      Dict([homeworks |-> List(<<>>)]),
      Dict(<<>>),
      Dict([homeworks |-> Str("none"), current_date |-> Int(456)]),
      Dict([homeworks |-> Str("none")]),
      Dict([homeworks |-> List(<<>>), current_date |-> Int(456)]),
      Dict([homeworks |-> List(<<Dict([homework_name |-> Str("hw2"),
                                       status |-> Str("rejected"),
                                       current_date |-> Int(123)]),
                                 Dict([homework_name |-> Str("hw1"),
                                       status |-> Str("approved"),
                                       current_date |-> Int(77)])>>),
            current_date |-> Int(456)]) }
    \cup { Dict([homeworks |-> List(<<h>>), current_date |-> Int(456)]) :
               h \in HomeworkRecords }

\* status codes other than 200
BadStatusCodes == {500}

\* what requests.get and answer.json() can do
ApiOutcomes ==
    { [kind |-> "raise", type |-> ty] : ty \in RequestErrors }
    \cup { [kind |-> "status", code |-> c] : c \in BadStatusCodes }
    \cup { [kind |-> "not_json"] }
    \cup { [kind |-> "json", body |-> r] : r \in Responses }

-----------------------------------------------------------------------------
(* The trace *)

LogRecord(level, text) == [ev |-> "log", level |-> level, text |-> text, cycle |-> cycle]
Delivery(text, ok, line) ==
    [ev |-> "deliver", text |-> text, ok |-> ok, line |-> line, cycle |-> cycle]
Request(from_date) == [ev |-> "request", from_date |-> from_date, cycle |-> cycle + 1]
SleepEv(secs) == [ev |-> "sleep", secs |-> secs, cycle |-> cycle]

-----------------------------------------------------------------------------
(* Calls, returns and exceptions *)

\* what a chat delivery call can do: succeed, or raise TelegramError
DeliveryOutcomes == IF failures < MaxFailures THEN BOOLEAN ELSE {TRUE}

Frame(fn, line, text) == [fn |-> fn, line |-> line, message |-> text]

Top == stack[Len(stack)]
Pop == SubSeq(stack, 1, Len(stack) - 1)
SetLine(line) == [stack EXCEPT ![Len(stack)].line = line]

\* positions of main inside the try body, waiting for a call to return
TryBody == {"get_api_answer", "check_response", "parse_status", "send_message"}

\* an exception leaves every frame of `stack` (none of them catches it) and
\* reaches main: the except clause if main is in the try body, else the
\* exception leaves main
Raise(e) ==
    /\ stack' = <<>>
    /\ error' = e
    /\ pc' = IF pc \in TryBody THEN "L190" ELSE "crashed"

\* a call made from the top frame, which waits at `line` for it
Call(line, callee) ==
    IF Len(stack) >= RecursionLimit
    THEN Raise(RecursionError)
    ELSE /\ stack' = Append(SetLine(line), callee)
         /\ UNCHANGED <<pc, error>>

\* a call main makes at `at`
MainCall(at, callee) ==
    /\ stack' = <<callee>>
    /\ pc' = at

-----------------------------------------------------------------------------
(* send_and_logging_error and send_message *)

InListOfErrors(text) == \E i \in 1..Len(LIST_OF_ERRORS) : LIST_OF_ERRORS[i] = text

\* send_and_logging_error without the test `message in LIST_OF_ERRORS`
SendAndLoggingError_nocheck ==
    /\ stack # <<>>
    /\ Top.fn = "send_and_logging_error"
    /\ Top.line = 44
    /\ trace' = Append(trace, LogRecord("error", Top.message))
    /\ Call(51, Frame("send_message", 57, Top.message))
    /\ UNCHANGED <<tokenVars, LIST_OF_ERRORS, ret, current_timestamp, response,
                   homeworks_list, homework, message, now, cycle, failures>>

\* send_and_logging_error without its logger.error call
SendAndLoggingError_nolog ==
    /\ stack # <<>>
    /\ Top.fn = "send_and_logging_error"
    /\ Top.line = 44
    /\ IF InListOfErrors(Top.message)
       THEN /\ stack' = Pop
            /\ ret' = NoneV
            /\ UNCHANGED <<pc, error>>
       ELSE /\ Call(51, Frame("send_message", 57, Top.message))
            /\ UNCHANGED ret
    /\ UNCHANGED <<tokenVars, LIST_OF_ERRORS, current_timestamp, response,
                   homeworks_list, homework, message, now, cycle, failures, trace>>

\* send_and_logging_error, lines 44-50: log the text; return if it was
\* delivered before, else call send_message
SendAndLoggingError ==
    /\ stack # <<>>
    /\ Top.fn = "send_and_logging_error"
    /\ Top.line = 44
    /\ trace' = Append(trace, LogRecord("error", Top.message))
    /\ IF InListOfErrors(Top.message)
       THEN /\ stack' = Pop
            /\ ret' = NoneV
            /\ UNCHANGED <<pc, error>>
       ELSE /\ Call(51, Frame("send_message", 57, Top.message))
            /\ UNCHANGED ret
    /\ UNCHANGED <<tokenVars, LIST_OF_ERRORS, current_timestamp, response,
                   homeworks_list, homework, message, now, cycle, failures>>

\* send_and_logging_error, lines 51-52: record the text if send_message
\* returned a message object
RecordError ==
    /\ stack # <<>>
    /\ Top.fn = "send_and_logging_error"
    /\ Top.line = 51
    /\ LIST_OF_ERRORS' = IF ret = MessageObject
                         THEN Append(LIST_OF_ERRORS, Top.message)
                         ELSE LIST_OF_ERRORS
    /\ stack' = Pop
    /\ ret' = NoneV
    /\ UNCHANGED <<tokenVars, pc, localVars, now, cycle, failures, trace>>

\* send_message, line 57: the delivery call outside the try statement
SendMessageFirst ==
    /\ stack # <<>>
    /\ Top.fn = "send_message"
    /\ Top.line = 57
    /\ \E ok \in DeliveryOutcomes :
          /\ trace' = Append(trace, Delivery(Top.message, ok, 57))
          /\ failures' = IF ok THEN failures ELSE failures + 1
          /\ IF ok
             THEN /\ stack' = SetLine(60)
                  /\ UNCHANGED <<pc, error>>
             ELSE Raise(TelegramError)
    /\ UNCHANGED <<tokenVars, LIST_OF_ERRORS, ret, current_timestamp, response,
                   homeworks_list, homework, message, now, cycle>>

\* send_message, lines 59-64: the delivery call inside the try statement
SendMessageSecond ==
    /\ stack # <<>>
    /\ Top.fn = "send_message"
    /\ Top.line = 60
    /\ \E ok \in DeliveryOutcomes :
          /\ failures' = IF ok THEN failures ELSE failures + 1
          /\ IF ok
             THEN /\ trace' = trace \o
                        <<Delivery(Top.message, TRUE, 60),
                          LogRecord("info",
                                    <<"Otpravleno soobshchenie: ">> \o Top.message)>>
                  /\ stack' = Pop
                  /\ ret' = MessageObject
                  /\ UNCHANGED <<pc, error>>
             ELSE /\ trace' = Append(trace, Delivery(Top.message, FALSE, 60))
                  /\ Call(64, Frame("send_and_logging_error", 44,
                                    <<"NE Otpravleno soobshchenie: ">> \o Top.message))
                  /\ UNCHANGED ret
    /\ UNCHANGED <<tokenVars, LIST_OF_ERRORS, current_timestamp, response,
                   homeworks_list, homework, message, now, cycle>>

\* send_message, after line 64: the except clause ends, the function returns None
SendMessageFailed ==
    /\ stack # <<>>
    /\ Top.fn = "send_message"
    /\ Top.line = 64
    /\ stack' = Pop
    /\ ret' = NoneV
    /\ UNCHANGED <<tokenVars, LIST_OF_ERRORS, pc, localVars, now, cycle, failures, trace>>

-----------------------------------------------------------------------------
(* main *)

\* check_tokens forgetting the chat id
check_tokens_without_chat_id ==
    /\ PRACTICUM_TOKEN # NoneV
    /\ TELEGRAM_TOKEN # NoneV

check_tokens ==
    /\ PRACTICUM_TOKEN # NoneV
    /\ TELEGRAM_TOKEN # NoneV
    /\ TELEGRAM_CHAT_ID # NoneV

\* get_api_answer, line 73: current_timestamp or int(time.time())
FromDate(timestamp) == IF Truthy(timestamp) THEN timestamp ELSE Int(now)

\* main, lines 167-172
Main ==
    /\ pc = "L167"
    /\ IF check_tokens
       THEN /\ current_timestamp' = Int(now)
            /\ pc' = "L176"
            /\ UNCHANGED trace
       ELSE /\ trace' = Append(trace,
                   LogRecord("critical", <<"Ne dostupny peremennye okruzheniya!">>))
            /\ pc' = "returned"
            /\ UNCHANGED current_timestamp
    /\ UNCHANGED <<tokenVars, LIST_OF_ERRORS, stack, ret, response, homeworks_list,
                   homework, message, error, now, cycle, failures>>

\* main, line 176: get_api_answer up to its return or its error report
GetApiAnswer ==
    /\ pc = "L176"
    /\ cycle < MaxCycles
    /\ cycle' = cycle + 1
    /\ trace' = Append(trace, Request(FromDate(current_timestamp)))
    /\ \E answer \in ApiOutcomes :
          CASE answer.kind = "raise" ->
                   /\ MainCall("get_api_answer",
                          Frame("send_and_logging_error", 44,
                                RequestErrorMessage(answer.type)))
                   /\ UNCHANGED response
            [] answer.kind = "status" ->
                   /\ MainCall("get_api_answer",
                          Frame("send_and_logging_error", 44,
                                <<"V otvet ot API status ", ToString(answer.code)>>))
                   /\ UNCHANGED response
            [] answer.kind = "not_json" ->
                   /\ MainCall("get_api_answer",
                          Frame("send_and_logging_error", 44,
                                <<"Oshibka preobrazovaniya v dzheison">>))
                   /\ UNCHANGED response
            [] answer.kind = "json" ->
                   /\ response' = answer.body
                   /\ pc' = "L177"
                   /\ UNCHANGED stack
    /\ UNCHANGED <<tokenVars, LIST_OF_ERRORS, ret, current_timestamp,
                   homeworks_list, homework, message, error, now, failures>>

\* get_api_answer returns None after its error report
GetApiAnswerFailed ==
    /\ pc = "get_api_answer"
    /\ stack = <<>>
    /\ response' = NoneV
    /\ pc' = "L177"
    /\ UNCHANGED <<tokenVars, LIST_OF_ERRORS, stack, ret, current_timestamp,
                   homeworks_list, homework, message, error, now, cycle, failures, trace>>

\* check_response reporting a response that is no mapping and returning None
\* instead of raising TypeError
CheckResponse_soft ==
    /\ pc = "L177"
    /\ IF response.t # "dict"
       THEN /\ MainCall("check_response",
                   Frame("send_and_logging_error", 44,
                         <<"V otvet ot API vernulsya ne slovar">>))
            /\ UNCHANGED <<error, homeworks_list>>
       ELSE IF Get(response, "homeworks") = NoneV
       THEN /\ MainCall("check_response",
                   Frame("send_and_logging_error", 44,
                         <<"V otvete ot API net klyucha homeworks">>))
            /\ UNCHANGED <<error, homeworks_list>>
       ELSE IF Get(response, "current_date") = NoneV
       THEN /\ MainCall("check_response",
                   Frame("send_and_logging_error", 44,
                         <<"V otvete ot API net klyucha current_date">>))
            /\ UNCHANGED <<error, homeworks_list>>
       ELSE IF Get(response, "homeworks").t # "list"
       THEN /\ MainCall("check_response",
                   Frame("send_and_logging_error", 44, <<"homeworks_list ne spisok">>))
            /\ UNCHANGED <<error, homeworks_list>>
       ELSE /\ homeworks_list' = Get(response, "homeworks")
            /\ pc' = "L179"
            /\ UNCHANGED <<stack, error>>
    /\ UNCHANGED <<tokenVars, LIST_OF_ERRORS, ret, current_timestamp, response,
                   homework, message, now, cycle, failures, trace>>

\* main, line 177: check_response up to its return, raise or error report
CheckResponse ==
    /\ pc = "L177"
    /\ IF response.t # "dict"
       THEN /\ error' = Exception("TypeError", <<"V otvet ot API vernulsya ne slovar">>)
            /\ pc' = "L190"
            /\ UNCHANGED <<stack, homeworks_list>>
       ELSE IF Get(response, "homeworks") = NoneV
       THEN /\ MainCall("check_response",
                   Frame("send_and_logging_error", 44,
                         <<"V otvete ot API net klyucha homeworks">>))
            /\ UNCHANGED <<error, homeworks_list>>
       ELSE IF Get(response, "current_date") = NoneV
       THEN /\ MainCall("check_response",
                   Frame("send_and_logging_error", 44,
                         <<"V otvete ot API net klyucha current_date">>))
            /\ UNCHANGED <<error, homeworks_list>>
       ELSE IF Get(response, "homeworks").t # "list"
       THEN /\ MainCall("check_response",
                   Frame("send_and_logging_error", 44, <<"homeworks_list ne spisok">>))
            /\ UNCHANGED <<error, homeworks_list>>
       ELSE /\ homeworks_list' = Get(response, "homeworks")
            /\ pc' = "L179"
            /\ UNCHANGED <<stack, error>>
    /\ UNCHANGED <<tokenVars, LIST_OF_ERRORS, ret, current_timestamp, response,
                   homework, message, now, cycle, failures, trace>>

\* check_response returns None after its error report
CheckResponseFailed ==
    /\ pc = "check_response"
    /\ stack = <<>>
    /\ homeworks_list' = NoneV
    /\ pc' = "L179"
    /\ UNCHANGED <<tokenVars, LIST_OF_ERRORS, stack, ret, current_timestamp,
                   response, homework, message, error, now, cycle, failures, trace>>

\* lines 179-180 going on to the sleep instead of returning
ReturnIfNone_retries ==
    /\ pc = "L179"
    /\ pc' = IF homeworks_list = NoneV THEN "L187" ELSE "L181"
    /\ UNCHANGED <<tokenVars, LIST_OF_ERRORS, stack, ret, localVars, now, cycle,
                   failures, trace>>

\* main, lines 179-180: return when check_response returned None
ReturnIfNone ==
    /\ pc = "L179"
    /\ pc' = IF homeworks_list = NoneV THEN "returned" ELSE "L181"
    /\ UNCHANGED <<tokenVars, LIST_OF_ERRORS, stack, ret, localVars, now, cycle, failures,
                   trace>>

\* lines 181-183 taking current_date from the response, not from the record
TakeFirst_response_date ==
    /\ pc = "L181"
    /\ IF Len(homeworks_list.v) > 0
       THEN /\ homework' = homeworks_list.v[1]
            /\ current_timestamp' = Get(response, "current_date")
            /\ pc' = "L184"
       ELSE /\ pc' = "L187"
            /\ UNCHANGED <<homework, current_timestamp>>
    /\ UNCHANGED <<tokenVars, LIST_OF_ERRORS, stack, ret, response, homeworks_list,
                   message, error, now, cycle, failures, trace>>

\* main, lines 181-183: take the first homework and its current_date
TakeFirst ==
    /\ pc = "L181"
    /\ IF Len(homeworks_list.v) > 0
       THEN /\ homework' = homeworks_list.v[1]
            /\ current_timestamp' = Get(homeworks_list.v[1], "current_date")
            /\ pc' = "L184"
       ELSE /\ pc' = "L187"
            /\ UNCHANGED <<homework, current_timestamp>>
    /\ UNCHANGED <<tokenVars, LIST_OF_ERRORS, stack, ret, response, homeworks_list,
                   message, error, now, cycle, failures, trace>>

\* parse_status reporting a missing homework_name instead of raising KeyError
ParseStatus_soft ==
    /\ pc = "L184"
    /\ IF Get(homework, "homework_name") = NoneV
       THEN /\ MainCall("parse_status",
                   Frame("send_and_logging_error", 44,
                         <<"V slovare homework net polya homework_name">>))
            /\ UNCHANGED <<error, message>>
       ELSE IF Verdict(Get(homework, "status")) = NoneV
       THEN /\ MainCall("parse_status",
                   Frame("send_and_logging_error", 44,
                         <<"V otvete ot API status ", Format(Get(homework, "status"))>>))
            /\ UNCHANGED <<error, message>>
       ELSE /\ message' = StatusMessage(Get(homework, "homework_name"),
                                        Verdict(Get(homework, "status")))
            /\ pc' = "L185"
            /\ UNCHANGED <<stack, error>>
    /\ UNCHANGED <<tokenVars, LIST_OF_ERRORS, ret, current_timestamp, response,
                   homeworks_list, homework, now, cycle, failures, trace>>

\* main, line 184: parse_status up to its return, raise or error report
ParseStatus ==
    /\ pc = "L184"
    /\ IF Get(homework, "homework_name") = NoneV
       THEN /\ error' = Exception("KeyError",
                                  <<"V slovare homework net polya homework_name">>)
            /\ pc' = "L190"
            /\ UNCHANGED <<stack, message>>
       ELSE IF Verdict(Get(homework, "status")) = NoneV
       THEN /\ MainCall("parse_status",
                   Frame("send_and_logging_error", 44,
                         <<"V otvete ot API status ", Format(Get(homework, "status"))>>))
            /\ UNCHANGED <<error, message>>
       ELSE /\ message' = StatusMessage(Get(homework, "homework_name"),
                                        Verdict(Get(homework, "status")))
            /\ pc' = "L185"
            /\ UNCHANGED <<stack, error>>
    /\ UNCHANGED <<tokenVars, LIST_OF_ERRORS, ret, current_timestamp, response,
                   homeworks_list, homework, now, cycle, failures, trace>>

\* parse_status returns its sentence after reporting an unknown status
ParseStatusUnknown ==
    /\ pc = "parse_status"
    /\ stack = <<>>
    /\ message' = StatusMessage(Get(homework, "homework_name"),
                                Verdict(Get(homework, "status")))
    /\ pc' = "L185"
    /\ UNCHANGED <<tokenVars, LIST_OF_ERRORS, stack, ret, current_timestamp,
                   response, homeworks_list, homework, error, now, cycle, failures, trace>>

\* main, line 185: call send_message
SendStatus ==
    /\ pc = "L185"
    /\ MainCall("send_message", Frame("send_message", 57, message))
    /\ UNCHANGED <<tokenVars, LIST_OF_ERRORS, ret, localVars, now, cycle, failures, trace>>

\* send_message returned to main
StatusSent ==
    /\ pc = "send_message"
    /\ stack = <<>>
    /\ pc' = "L187"
    /\ UNCHANGED <<tokenVars, LIST_OF_ERRORS, stack, ret, localVars, now, cycle, failures,
                   trace>>

\* main, line 187: sleep at the end of the try body; the else clause follows
Sleep ==
    /\ pc = "L187"
    /\ now' = now + RETRY_TIME
    /\ trace' = Append(trace, SleepEv(RETRY_TIME))
    /\ pc' = "L194"
    /\ UNCHANGED <<tokenVars, LIST_OF_ERRORS, stack, ret, localVars, cycle, failures>>

\* main, line 194: the else clause of the try statement
Else ==
    /\ pc = "L194"
    /\ MainCall("else", Frame("send_and_logging_error", 44, <<"neopoznannyi kosyak">>))
    /\ UNCHANGED <<tokenVars, LIST_OF_ERRORS, ret, localVars, now, cycle, failures, trace>>

\* the else clause ends: next iteration
ElseDone ==
    /\ pc = "else"
    /\ stack = <<>>
    /\ pc' = "L176"
    /\ UNCHANGED <<tokenVars, LIST_OF_ERRORS, stack, ret, localVars, now, cycle, failures,
                   trace>>

\* main, lines 189-191: the except clause reports the exception
Except ==
    /\ pc = "L190"
    /\ message' = <<"Sboi v rabote programmy: ">> \o ExcStr(error)
    /\ MainCall("except", Frame("send_and_logging_error", 44, message'))
    /\ UNCHANGED <<tokenVars, LIST_OF_ERRORS, ret, current_timestamp, response,
                   homeworks_list, homework, error, now, cycle, failures, trace>>

\* the except clause going to the next iteration without its sleep
ExceptSleep_nosleep ==
    /\ pc = "except"
    /\ stack = <<>>
    /\ pc' = "L176"
    /\ UNCHANGED <<tokenVars, LIST_OF_ERRORS, stack, ret, localVars, now, cycle,
                   failures, trace>>

\* main, line 192: sleep in the except clause, then the next iteration
ExceptSleep ==
    /\ pc = "except"
    /\ stack = <<>>
    /\ now' = now + RETRY_TIME
    /\ trace' = Append(trace, SleepEv(RETRY_TIME))
    /\ pc' = "L176"
    /\ UNCHANGED <<tokenVars, LIST_OF_ERRORS, stack, ret, localVars, cycle, failures>>

-----------------------------------------------------------------------------

TokenValues == {NoneV, Str("token")}

Init ==
    /\ PRACTICUM_TOKEN \in TokenValues
    /\ TELEGRAM_TOKEN \in TokenValues
    /\ TELEGRAM_CHAT_ID \in TokenValues
    /\ LIST_OF_ERRORS = <<>>
    /\ pc = "L167"
    /\ stack = <<>>
    /\ ret = NoneV
    /\ current_timestamp = NoneV
    /\ response = NoneV
    /\ homeworks_list = NoneV
    /\ homework = NoneV
    /\ message = <<>>
    /\ error = NoneV
    /\ now = StartTime
    /\ cycle = 0
    /\ failures = 0
    /\ trace = <<>>

Next ==
    \/ Main
    \/ GetApiAnswer
    \/ GetApiAnswerFailed
    \/ CheckResponse
    \/ CheckResponseFailed
    \/ ReturnIfNone
    \/ TakeFirst
    \/ ParseStatus
    \/ ParseStatusUnknown
    \/ SendStatus
    \/ StatusSent
    \/ Sleep
    \/ Else
    \/ ElseDone
    \/ Except
    \/ ExceptSleep
    \/ SendAndLoggingError
    \/ RecordError
    \/ SendMessageFirst
    \/ SendMessageSecond
    \/ SendMessageFailed

Spec == Init /\ [][Next]_vars

-----------------------------------------------------------------------------
(* Reading the trace *)

DeliveryCalls(text) ==
    Cardinality({i \in DOMAIN trace :
                    trace[i].ev = "deliver" /\ trace[i].text = text})

DeliveryCallsInCycle(text, c) ==
    Cardinality({i \in DOMAIN trace :
                    /\ trace[i].ev = "deliver"
                    /\ trace[i].text = text
                    /\ trace[i].cycle = c})

\* the texts send_and_logging_error was called with
ReportedTexts ==
    {trace[i].text : i \in {j \in DOMAIN trace :
                               trace[j].ev = "log" /\ trace[j].level = "error"}}

\* the texts send_and_logging_error was called with in iteration c by
\* get_api_answer, check_response, parse_status or main (the calls made by
\* send_message carry the "NE Otpravleno" prefix)
DirectReports(c) ==
    SelectSeq(trace,
              LAMBDA e : /\ e.ev = "log"
                         /\ e.level = "error"
                         /\ e.cycle = c
                         /\ e.text[1] # "NE Otpravleno soobshchenie: ")

\* the text t ends with the text m (a log record that carries the message m)
Mentions(t, m) ==
    /\ Len(t) >= Len(m)
    /\ SubSeq(t, Len(t) - Len(m) + 1, Len(t)) = m

\* the text is a sentence of parse_status
IsStatusSentence(text) == text[1] = "Izmenilsya status proverki raboty \""

AnyTokenAbsent ==
    \/ PRACTICUM_TOKEN = NoneV
    \/ TELEGRAM_TOKEN = NoneV
    \/ TELEGRAM_CHAT_ID = NoneV

-----------------------------------------------------------------------------
(* Claims *)

\* C1: a text passed to send_and_logging_error is carried by at most one
\* chat delivery call in the life of the process.
C1_ErrorDeliveredAtMostOnce ==
    \A text \in ReportedTexts : DeliveryCalls(text) <= 1

\* C2: when send_message has returned a message object to main for the
\* status message of this cycle, exactly one chat delivery call of this
\* cycle carried that message.
C2_StatusDeliveredExactlyOnce ==
    (pc = "send_message" /\ stack = <<>> /\ ret = MessageObject)
        => DeliveryCallsInCycle(message, cycle) = 1

\* C3: no exception leaves main: main ends only by its return statements.
C3_NoExceptionLeavesMain == pc # "crashed"

\* C4: a chat delivery call that fails never makes send_message raise: no
\* TelegramError reaches main, neither its except clause nor its caller.
C4_SendNeverRaises == error = NoneV \/ error.type # "TelegramError"

\* C5: once get_api_answer has started to report a failed request, it
\* returns None to main after one report; it never leaves by an exception.
C5_GetApiAnswerReturnsNone ==
    [][pc = "get_api_answer"
          => \/ pc' = "get_api_answer"
             \/ /\ pc' = "L177"
                /\ response' = NoneV
                /\ Len(DirectReports(cycle)') = 1]_vars

\* C6: when check_response has returned None, main returns at once, and after
\* main has returned nothing happens: no request, no delivery, no sleep.
C6_NoDataTerminatesLoop ==
    [][/\ (pc = "L179" /\ homeworks_list = NoneV) => pc' = "returned"
       /\ pc = "returned" => (pc' = "returned" /\ trace' = trace)]_vars

\* a run that ended by the early return after a request
C6_Witness ==
    /\ pc = "returned"
    /\ cycle > 0
    /\ homeworks_list = NoneV

\* C7: while the except clause reports a TypeError or KeyError of the
\* iteration, main stays in the loop: it goes on to the sleep and the next
\* request and is not ended by an exception.
C7_ContractViolationContinues ==
    [][(pc = "except" /\ error.type \in {"TypeError", "KeyError"})
          => pc' \in {"except", "L176"}]_vars

\* C8: with a credential absent, main logs one critical record and returns:
\* no request, no chat delivery call and no sleep ever happens.
C8_MissingTokensNoLoop ==
    AnyTokenAbsent =>
        /\ pc \in {"L167", "returned"}
        /\ cycle = 0
        /\ stack = <<>>
        /\ \A i \in DOMAIN trace :
               trace[i].ev = "log" /\ trace[i].level = "critical"
        /\ pc = "returned" => Len(trace) = 1

\* main has returned for want of a credential
C8_Witness ==
    /\ AnyTokenAbsent
    /\ pc = "returned"
    /\ Len(trace) = 1

\* C9 as stated: a request made after a non-empty validated list carries
\* from_date = the current_date of the first record of that list, whatever
\* that field holds (absent and 0 included).
C9_FromDateIsFirstRecordDate ==
    [][(cycle' = cycle + 1 /\ homeworks_list.t = "list" /\ Len(homeworks_list.v) > 0)
          => trace'[Len(trace')].from_date
                 = Get(homeworks_list.v[1], "current_date")]_vars

\* C9 amended: a request made after a non-empty validated list carries
\* from_date = the current_date of the first record of that list when that
\* field is present and not 0, and the clock time of the request otherwise.
C9_FromDateIsFirstRecordDateOrNow ==
    [][(cycle' = cycle + 1 /\ homeworks_list.t = "list" /\ Len(homeworks_list.v) > 0)
          => LET date == Get(homeworks_list.v[1], "current_date")
             IN  trace'[Len(trace')].from_date
                     = IF date.t = "int" /\ date.v # 0 THEN date ELSE Int(now)]_vars

\* the second request was made with the timestamp of the first record
C9_Witness ==
    /\ cycle = 2
    /\ pc = "L177"
    /\ homeworks_list.t = "list"
    /\ Len(homeworks_list.v) > 0
    /\ Get(homeworks_list.v[1], "current_date") = Int(123)
    /\ trace[Len(trace)].ev = "request"
    /\ trace[Len(trace)].from_date = Int(123)

\* C10: once check_response has started to report a missing key or a
\* homeworks value that is no list, it returns None to main after exactly
\* one report, whose text is that of the first failing check (homeworks
\* missing, current_date missing, homeworks no list).
C10_CheckResponseReturnsNone ==
    [][pc = "check_response"
          => \/ pc' = "check_response"
             \/ /\ pc' = "L179"
                /\ homeworks_list' = NoneV
                /\ DirectReports(cycle)' =
                       <<[ev |-> "log", level |-> "error", cycle |-> cycle,
                          text |->
                             IF "homeworks" \notin DOMAIN response.v
                             THEN <<"V otvete ot API net klyucha homeworks">>
                             ELSE IF "current_date" \notin DOMAIN response.v
                             THEN <<"V otvete ot API net klyucha current_date">>
                             ELSE <<"homeworks_list ne spisok">>]>>]_vars

\* C11: for a response that is no mapping, check_response raises TypeError
\* into main's except clause: it calls neither send_and_logging_error nor the
\* chat, logs nothing and leaves LIST_OF_ERRORS as it was.
C11_NonMappingRaises ==
    [][(pc = "L177" /\ response.t # "dict")
          => /\ pc' = "L190"
             /\ error'.type = "TypeError"
             /\ stack' = <<>>
             /\ trace' = trace
             /\ LIST_OF_ERRORS' = LIST_OF_ERRORS]_vars

\* check_response has raised TypeError for a JSON list
C11_Witness ==
    /\ pc = "L190"
    /\ response.t = "list"
    /\ error # NoneV
    /\ error.type = "TypeError"
    /\ stack = <<>>

\* C12 as stated: every chat delivery call is preceded by a log record that
\* carries its message, for status messages and error reports alike.
C12_LoggedBeforeDelivery ==
    \A i \in DOMAIN trace :
        trace[i].ev = "deliver"
            => \E j \in 1..(i - 1) :
                   trace[j].ev = "log" /\ Mentions(trace[j].text, trace[i].text)

\* C12 amended: every chat delivery call made for send_and_logging_error is,
\* at the step that makes it, preceded by the error record of its text,
\* whether the call succeeds or fails; a message given to send_message directly is logged only after the
\* fact: each info record follows at once the successful delivery call of
\* line 60 of the message it names.
C12_ReportsLoggedBeforeDelivery ==
    [][\A i \in (Len(trace) + 1)..Len(trace') :
           /\ (trace'[i].ev = "deliver" /\ ~IsStatusSentence(trace'[i].text))
                  => \E j \in 1..(i - 1) :
                         /\ trace'[j].ev = "log"
                         /\ trace'[j].level = "error"
                         /\ trace'[j].text = trace'[i].text
           /\ (trace'[i].ev = "log" /\ trace'[i].level = "info")
                  => /\ i > 1
                     /\ trace'[i - 1].ev = "deliver"
                     /\ trace'[i - 1].ok
                     /\ trace'[i - 1].line = 60
                     /\ trace'[i].text =
                            <<"Otpravleno soobshchenie: ">> \o trace'[i - 1].text]_vars

\* a delivery call of an error report has failed, and an info record exists
C12_Witness ==
    /\ \E i \in DOMAIN trace :
           /\ trace[i].ev = "deliver"
           /\ ~trace[i].ok
           /\ ~IsStatusSentence(trace[i].text)
    /\ \E j \in DOMAIN trace : trace[j].ev = "log" /\ trace[j].level = "info"

C14_UnknownStatusReturnsSentence ==
    [][pc = "parse_status"
          => \/ pc' = "parse_status"
             \/ /\ pc' = "L185"
                /\ Len(message') = 4
                /\ message'[2] = homework.v.homework_name.v
                /\ message'[4] = "None"
                /\ Len(DirectReports(cycle)') = 1
                /\ DirectReports(cycle)'[1].text[1] = "V otvete ot API status "]_vars

\* C15: when parse_status has returned for a named homework whose status is
\* approved, reviewing or rejected, its sentence is the literal parts around
\* the name and the verdict text of that status, and it has made no error
\* report and no chat delivery call.
C15_KnownStatusSentence ==
    (/\ pc = "L185"
     /\ "status" \in DOMAIN homework.v
     /\ homework.v.status.t = "str"
     /\ homework.v.status.v \in {"approved", "reviewing", "rejected"})
        => /\ message =
                 <<"Izmenilsya status proverki raboty \"",
                   homework.v.homework_name.v,
                   "\". ",
                   CASE homework.v.status.v = "approved" ->
                            "Rabota proverena: revyueru vsyo ponravilos. Ura!"
                     [] homework.v.status.v = "reviewing" ->
                            "Rabota vzyata na proverku revyuerom."
                     [] homework.v.status.v = "rejected" ->
                            "Rabota proverena: u revyuera est zamechaniya.">>
           /\ \A i \in DOMAIN trace :
                  trace[i].cycle = cycle => trace[i].ev = "request"

\* parse_status has returned the sentence of a rejected homework "hw2"
C15_Witness ==
    /\ pc = "L185"
    /\ homework.v.status = Str("rejected")
    /\ message[2] = "hw2"
    /\ message[4] = "Rabota proverena: u revyuera est zamechaniya."

\* C16: for a first record without homework_name, parse_status raises
\* KeyError into main's except clause before anything is sent or logged,
\* with the poll timestamp already replaced by the record's current_date;
\* the except clause then calls send_and_logging_error with the text of the
\* failure, and no status sentence is delivered in that iteration.
C16_MissingNameRaises ==
    [][/\ (pc = "L184" /\ "homework_name" \notin DOMAIN homework.v)
          => /\ pc' = "L190"
             /\ error'.type = "KeyError"
             /\ stack' = <<>>
             /\ trace' = trace
             /\ current_timestamp' =
                    IF "current_date" \in DOMAIN homework.v
                    THEN homework.v.current_date ELSE NoneV
       /\ (pc = "L190" /\ error.type = "KeyError")
          => /\ pc' = "except"
             /\ Len(stack') = 1
             /\ stack'[1].fn = "send_and_logging_error"
             /\ stack'[1].message =
                    <<"Sboi v rabote programmy: ", "'",
                      "V slovare homework net polya homework_name", "'">>
       /\ (pc = "except" /\ error.type = "KeyError")
          => \A i \in DOMAIN trace' :
                 (trace'[i].ev = "deliver" /\ trace'[i].cycle = cycle)
                     => ~IsStatusSentence(trace'[i].text)]_vars

\* the except clause has reported the KeyError; the timestamp is the one of
\* the record without a name
C16_Witness ==
    /\ pc = "except"
    /\ stack = <<>>
    /\ error.type = "KeyError"
    /\ "homework_name" \notin DOMAIN homework.v
    /\ current_timestamp = Int(123)
    /\ \E i \in DOMAIN trace :
           /\ trace[i].ev = "deliver"
           /\ trace[i].text[1] = "Sboi v rabote programmy: "

\* C17: at every step that makes an API request after an earlier one, the
\* process has slept between the two exactly once, for 600 seconds, whether
\* the iteration ended in the try body or in the except clause.
C17_OneSleepBetweenRequests ==
    [][\A j \in (Len(trace) + 1)..Len(trace') :
           (trace'[j].ev = "request" /\ \E i \in 1..(j - 1) : trace'[i].ev = "request")
               => LET i == CHOOSE i \in 1..(j - 1) :
                               /\ trace'[i].ev = "request"
                               /\ \A k \in (i + 1)..(j - 1) : trace'[k].ev # "request"
                      sleeps == {k \in (i + 1)..(j - 1) : trace'[k].ev = "sleep"}
                  IN  /\ Cardinality(sleeps) = 1
                      /\ \A k \in sleeps : trace'[k].secs = 600]_vars

\* a second request was made after an iteration that ended in the except
\* clause, and the clock has advanced by the sleep
C17_Witness ==
    /\ cycle = 2
    /\ pc = "L177"
    /\ error # NoneV
    /\ now = StartTime + 600
    /\ trace[Len(trace)].ev = "request"

\* C18: an iteration whose try body ends with the sleep goes on to the else
\* clause, which calls send_and_logging_error with the fixed text before the
\* next request; and once a chat delivery call carrying that text has
\* succeeded, no later delivery call carries it.
C18_GlitchReportedUntilDelivered ==
    [][/\ pc = "L187" => pc' = "L194"
       /\ pc = "L194"
          => /\ pc' = "else"
             /\ stack' = <<[fn |-> "send_and_logging_error", line |-> 44,
                            message |-> <<"neopoznannyi kosyak">>]>>
             /\ cycle' = cycle
       /\ \A i \in DOMAIN trace' :
              (/\ trace'[i].ev = "deliver"
               /\ trace'[i].ok
               /\ trace'[i].text = <<"neopoznannyi kosyak">>)
                  => \A j \in (i + 1)..Len(trace') :
                         trace'[j].ev = "deliver"
                             => trace'[j].text # <<"neopoznannyi kosyak">>]_vars

\* C19: the recursion send_message -> send_and_logging_error -> send_message
\* is bounded of itself: whatever the chat delivery calls do, it never grows
\* until the interpreter ends it with RecursionError.
C19_RecursionBounded == error = NoneV \/ error.type # "RecursionError"

====
